---- MODULE Spec2Model ----
(***************************************************************************)
(* Resumable batch annotation of one category, as extract_research_impact  *)
(* .py runs it (extract_info.py has the same call_ollama and               *)
(* process_category_file, with another prompt and OUTPUT_DIR).             *)
(*                                                                         *)
(* Durable state: the corpus file, the result ledger                       *)
(* ({category}_impact.jsonl) and the checkpoint ({category}_progress.json).*)
(* Volatile state: the locals of process_category_file, extract_paper_info *)
(* and call_ollama of the running process, and its position (pc).          *)
(* A process can be killed at any point (Crash) and the user can interrupt *)
(* it (KeyboardInterrupt); after a process has ended a new run can start.  *)
(***************************************************************************)
EXTENDS Integers, Sequences, FiniteSets

VARIABLES
    corpus,           \* the lines of the category's .jsonl.gz file
    output_file,      \* the ledger on disk: the _paper_id of each line
    output_exists,    \* whether the ledger file exists
    progress_file,    \* the checkpoint file on disk
    pc,               \* position of the running process ("idle": none runs)
    idx,              \* corpus lines consumed by the processing loop
    processed_ids,    \* process_category_file's locals
    papers_processed,
    papers_success,
    papers_failed,
    paper_id,
    extracted,
    out_buf,          \* lines written to out_f and not yet flushed
    save_kind,        \* which checkpoint write is in progress
    attempt,          \* call_ollama's loop variable
    requests,         \* requests.post calls of the current call_ollama call
    garbled,          \* of those, the ones that ended in a parse failure
    last,             \* the service's reply to the latest request
    delays,           \* the backoff sleeps of the current call_ollama call
    runs,             \* history: processes started so far
    loaded_ids,       \* history: processed_ids as loaded when the run began
    ledger0,          \* history: the ledger when the run began
    attempted,        \* history: ids handed to extract_paper_info in this run
    exit,             \* history: how the latest process ended (an uncaught
                      \* exception by its name)
    last_saved,       \* history: processed_ids of the latest complete checkpoint
    paused,           \* history: time.sleep(0.1) ran since the latest
                      \* annotator call of the run (TRUE before the first)
    text,             \* truncate_text's arguments and its return value
    max_length,
    truncated_text,
    selected_files,   \* main: per process, the categories chosen, in order
    readable,         \* main: the categories whose corpus file can be read
    main_pc,          \* main: per process, its position
    position,         \* main: per process, the index of the current category
    script,           \* main: the script each process runs
    progress_files,   \* main: per path, the checkpoint file
    ledgers,          \* main: per path, the records of the ledger
    summary_file,     \* main: extraction_summary.json
    locals,           \* main: per process, process_category_file's locals
    main_exit         \* main: per process, how it ended

vars == <<corpus, output_file, output_exists, progress_file, pc, idx,
          processed_ids, papers_processed, papers_success, papers_failed,
          paper_id, extracted, out_buf, save_kind, attempt, requests, garbled,
          last, delays, runs, loaded_ids, ledger0, attempted, exit,
          last_saved, paused, text, max_length, truncated_text, selected_files,
          readable, main_pc, position, script, progress_files, ledgers,
          summary_file,
          locals, main_exit>>

disk == <<corpus, output_file, output_exists, progress_file>>
counters == <<papers_processed, papers_success, papers_failed>>
call == <<attempt, requests, garbled, last, delays>>
\* The variables no step of a category run touches.
truncation == <<text, max_length, truncated_text>>
processes == <<script, selected_files, readable, main_pc, position,
               progress_files, ledgers, summary_file, locals, main_exit>>
elsewhere == <<truncation, processes>>

(***************************************************************************)
(* Program constants and the bounds of the model.                          *)
(***************************************************************************)
SAVE_INTERVAL == 50
max_retries == 3
UNKNOWN == 0          \* paper.get('id', 'unknown'): the id of a paper without one
UNBOUND == -1         \* paper_id before its first assignment in a run

MaxDocs == 2          \* longest short corpus
LongDocs == 50        \* length of the long corpus (reaches the periodic save)
MaxRuns == 2          \* processes started in one behaviour

(***************************************************************************)
(* The corpus: each line is unparsable, valid JSON that is no object, or   *)
(* an object (with an id, or without one: UNKNOWN).                        *)
(***************************************************************************)
BadLine == [kind |-> "bad", id |-> UNKNOWN]
NonObjLine == [kind |-> "nonobj", id |-> UNKNOWN]
Paper(i) == [kind |-> "obj", id |-> i]
Ids == {1, 2}         \* the ids of the short corpora
Lines == {BadLine, NonObjLine} \cup {Paper(i) : i \in {UNKNOWN} \cup Ids}

RECURSIVE SeqsUpTo(_, _)
SeqsUpTo(S, n) ==
    IF n = 0 THEN {<<>>}
    ELSE LET shorter == SeqsUpTo(S, n - 1)
         IN shorter \cup {Append(s, x) : s \in {t \in shorter : Len(t) = n - 1}, x \in S}

\* The ids are interchangeable, so a corpus names them in the order 1, 2, ...
InOrder(c) ==
    \A i \in DOMAIN c :
        c[i].id > 1 => \E j \in 1..(i - 1) : c[j].kind = "obj" /\ c[j].id = c[i].id - 1
ShortCorpora == {c \in SeqsUpTo(Lines, MaxDocs) : InOrder(c)}
\* Papers 2, 3, ...: only the first has an id of the short corpora.
LongCorpus == [i \in 1..LongDocs |-> Paper(i + 1)]
Corpora == ShortCorpora \cup {LongCorpus}
\* Restarts are explored on the short corpora; the long one gets one run fewer.
RunsFor(c) == IF Len(c) > MaxDocs THEN MaxRuns - 1 ELSE MaxRuns

(***************************************************************************)
(* The annotation service.  A reply is a transport exception, a non-200    *)
(* status, or status 200 with a response text.                             *)
(***************************************************************************)
Texts == {"object", "embedded", "badspan", "garbage", "emptyobject", "array"}
Reply(e, s, t) == [exc |-> e, status |-> s, text |-> t]
NoReply == Reply("none", 0, "")
Replies == {Reply("Timeout", 0, ""), Reply("ConnectionError", 0, ""),
            Reply("none", 500, "")}
           \cup {Reply("none", 200, t) : t \in Texts}
\* The service is only allowed to misbehave on the papers of the short corpora.
Faulty == {UNKNOWN} \cup Ids
RepliesFor(id) == IF id \in Faulty THEN Replies ELSE {Reply("none", 200, "object")}

\* json.loads(response_text): the class of the value, or the error raised.
JsonLoads(response_text) ==
    CASE response_text = "object" -> "dict"          \* '{"a": 1}'
      [] response_text = "emptyobject" -> "emptydict" \* '{}'
      [] response_text = "array" -> "list"            \* '[1]'
      [] OTHER -> "JSONDecodeError"

\* re.search(r'\{.*\}', response_text, re.DOTALL).group(), or no match.
BraceSpan(response_text) ==
    CASE response_text = "embedded" -> "object"       \* 'Here: {"a": 1} done'
      [] response_text = "badspan" -> "garbage"       \* 'x {not json} y' -> '{not json}'
      [] response_text = "object" -> "object"
      [] response_text = "emptyobject" -> "emptyobject"
      [] OTHER -> "nomatch"                  \* 'garbage{not json', '[1]'

\* Python truthiness of a value call_ollama can return.
Truthy(v) == v \in {"dict", "list"}

\* One iteration of call_ollama's loop up to the backoff: the value returned,
\* or "retry" when the iteration falls through to the backoff.
ParseError(reply) ==
    /\ reply.exc = "none" /\ reply.status = 200
    /\ JsonLoads(reply.text) = "JSONDecodeError"
    /\ \/ BraceSpan(reply.text) = "nomatch"
       \/ JsonLoads(BraceSpan(reply.text)) = "JSONDecodeError"

\* Mutant: no brace-span repair after a failed direct parse.
AttemptResult_NoRepair(reply) ==
    IF reply.exc # "none" THEN "retry"
    ELSE IF reply.status # 200 THEN "retry"
    ELSE IF JsonLoads(reply.text) # "JSONDecodeError" THEN JsonLoads(reply.text)
    ELSE "retry"

\* Mutant: a parse failure gives up at once instead of retrying.
AttemptResult_ParseGivesUp(reply) ==
    IF reply.exc # "none" THEN "retry"
    ELSE IF reply.status # 200 THEN "retry"
    ELSE IF JsonLoads(reply.text) # "JSONDecodeError" THEN JsonLoads(reply.text)
    ELSE IF ParseError(reply) THEN "None"
    ELSE JsonLoads(BraceSpan(reply.text))

AttemptResult(reply) ==
    IF reply.exc # "none" THEN "retry"
    ELSE IF reply.status # 200 THEN "retry"
    ELSE IF JsonLoads(reply.text) # "JSONDecodeError" THEN JsonLoads(reply.text)
    ELSE IF ParseError(reply) THEN "retry"
    ELSE JsonLoads(BraceSpan(reply.text))

\* Mutant: the delay does not grow.
Backoff_Constant(a) == 1

\* time.sleep(2 ** attempt)
Backoff(a) == 2 ^ a

(***************************************************************************)
(* The checkpoint file.                                                    *)
(***************************************************************************)
Checkpoint(st, ids, p, s, f, c) ==
    [st |-> st, processed_ids |-> ids, papers_processed |-> p,
     papers_success |-> s, papers_failed |-> f, completed |-> c]
AbsentFile == Checkpoint("absent", {}, 0, 0, 0, FALSE)
\* open(progress_file, 'w') has truncated the file; json.dump has not finished.
PartialFile == Checkpoint("partial", {}, 0, 0, 0, FALSE)

\* json.dump({...}, pf) of the current locals, and the close of pf.
Dump(ids, p, s, f, kind) == Checkpoint("ok", ids, p, s, f, kind = "final")

\* Mutant: the checkpoint is not read, every run starts from the empty set.
LoadProgress_Empty(file) == {}

\* Lines 263-267: set() when the file does not exist, else its processed_ids.
LoadProgress(file) == IF file.st = "absent" THEN {} ELSE file.processed_ids

\* Whether a periodic save is due after the increment of papers_processed.
SaveDue(p) == p % SAVE_INTERVAL = 0

\* Mutant: the line is written and not flushed.
WriteFlush_NoFlush(file, buf, line) == [disk |-> file, buf |-> Append(buf, line)]

\* out_f.write(line); out_f.flush(): the file on disk and the buffer afterwards.
WriteFlush(file, buf, line) == [disk |-> file \o Append(buf, line), buf |-> <<>>]
\* The close of out_f (leaving the with block) writes what is still buffered.
FlushedFile(file, buf) == file \o buf

\* output_mode = 'a' if output_file.exists() else 'w', and the open.
OutputMode(exists) == IF exists THEN "a" ELSE "w"

\* Mutant: the ledger is opened for writing whatever it holds.
OpenOutput_Truncate(mode, file) == <<>>

\* open(output_file, output_mode): 'a' keeps the file, 'w' empties it.
OpenOutput(mode, file) == IF mode = "a" THEN file ELSE <<>>

\* Mutant: the check of processed_ids is lost.
Skip_Never(id, ids) == FALSE

\* if paper_id in processed_ids: continue
Skip(id, ids) == id \in ids

(***************************************************************************)
(* truncate_text, lines 181-215.  A string is a sequence of characters.    *)
(***************************************************************************)
SECTION_BEFORE == 50      \* max(0, idx - 50)
SECTION_AFTER == 1500     \* min(len(text), idx + 1500)
MaxPieces == 3            \* longest text, in pieces
MaxLength == 8            \* largest max_length

Min(a, b) == IF a < b THEN a ELSE b
Max(a, b) == IF a > b THEN a ELSE b

intro_markers ==
    << <<"i","n","t","r","o","d","u","c","t","i","o","n">>,
       <<"a","b","s","t","r","a","c","t">>,
       <<"b","a","c","k","g","r","o","u","n","d">> >>
method_markers ==
    << <<"m","e","t","h","o","d">>,
       <<"a","p","p","r","o","a","c","h">>,
       <<"a","l","g","o","r","i","t","h","m">>,
       <<"m","o","d","e","l">> >>
result_markers ==
    << <<"r","e","s","u","l","t">>,
       <<"e","x","p","e","r","i","m","e","n","t">>,
       <<"e","v","a","l","u","a","t","i","o","n">> >>
conclusion_markers ==
    << <<"c","o","n","c","l","u","s","i","o","n">>,
       <<"d","i","s","c","u","s","s","i","o","n">>,
       <<"f","u","t","u","r","e"," ","w","o","r","k">> >>
Separator == <<"\n", ".", ".", ".", "\n">>     \* "\n...\n"
Suffix == <<".", ".", ".">>                     \* "..."

\* str.lower(), on the letters the texts of the model use.
LowerChar(ch) ==
    CASE ch = "M" -> "m"
      [] ch = "R" -> "r"
      [] OTHER -> ch
Lower(str) == [i \in DOMAIN str |-> LowerChar(str[i])]

\* str.find(marker): the start of the first occurrence (from 0), or -1.
Find(str, marker) ==
    LET hits == {i \in 0..(Len(str) - Len(marker)) :
                    SubSeq(str, i + 1, i + Len(marker)) = marker}
    IN IF hits = {} THEN -1
       ELSE CHOOSE i \in hits : \A j \in hits : i <= j

\* A slice index as Python normalises it: a negative one counts from the
\* end, and both ends are clipped to the string.
SliceIndex(i, n) == IF i < 0 THEN Max(n + i, 0) ELSE Min(i, n)
\* str[start:stop]
Slice(str, start, stop) ==
    SubSeq(str, SliceIndex(start, Len(str)) + 1, SliceIndex(stop, Len(str)))
\* str[start:]
SliceFrom(str, start) == Slice(str, start, Len(str))

\* The list parts of lines 198-205, for the markers from position k on.
RECURSIVE Parts(_, _, _)
Parts(str, markers, k) ==
    IF k > Len(markers) THEN <<>>
    ELSE LET idx0 == Find(Lower(str), markers[k])
             section_start == Max(0, idx0 - SECTION_BEFORE)
             section_end == Min(Len(str), idx0 + SECTION_AFTER)
         IN (IF idx0 # -1 THEN <<Slice(str, section_start, section_end)>> ELSE <<>>)
            \o Parts(str, markers, k + 1)

\* sep.join(parts)
RECURSIVE Join(_, _)
Join(parts, sep) ==
    IF parts = <<>> THEN <<>>
    ELSE IF Len(parts) = 1 THEN parts[1]
    ELSE parts[1] \o sep \o Join(Tail(parts), sep)

truncate_text(str, max) ==
    IF Len(str) <= max THEN str
    ELSE LET parts == Parts(str, intro_markers \o method_markers
                                 \o result_markers \o conclusion_markers, 1)
             combined == Join(parts, Separator)
             chunk_size == max \div 2
         IN IF parts # <<>>
            THEN IF Len(combined) <= max THEN combined
                 ELSE Slice(combined, 0, max) \o Suffix
            ELSE Slice(str, 0, chunk_size) \o Separator \o SliceFrom(str, -chunk_size)

(***************************************************************************)
(* Init: no process has run; the disk holds only the corpus.               *)
(***************************************************************************)
NoLocals ==
    /\ idx' = 0
    /\ processed_ids' = {}
    /\ papers_processed' = 0
    /\ papers_success' = 0
    /\ papers_failed' = 0
    /\ paper_id' = UNBOUND
    /\ extracted' = "None"
    /\ out_buf' = <<>>
    /\ save_kind' = "none"
    /\ attempt' = 0
    /\ requests' = 0
    /\ garbled' = 0
    /\ last' = NoReply
    /\ delays' = <<>>

NoCall ==
    /\ attempt' = 0
    /\ requests' = 0
    /\ garbled' = 0
    /\ last' = NoReply
    /\ delays' = <<>>

\* The history of a run is dropped when its process ends.
NoHistory ==
    /\ loaded_ids' = {}
    /\ ledger0' = <<>>
    /\ attempted' = <<>>
    /\ paused' = TRUE

\* truncate_text's return value, once it has returned.
Returned(value) == [returned |-> TRUE, value |-> value]
NotReturned == [returned |-> FALSE, value |-> <<>>]

\* truncate_text is not running.
NoTruncation ==
    /\ text = <<>>
    /\ max_length = 0
    /\ truncated_text = NotReturned

(***************************************************************************)
(* main's processes (lines 450-465), one per terminal; used by MainSpec.   *)
(***************************************************************************)
Procs == {1, 2}
Categories == {"cs", "math", "physics"}
MaxSelected == 2      \* categories one process is given
MainDocs == 1         \* papers of a category's corpus

\* The two annotation scripts and, for each, its OUTPUT_DIR (line 24 of
\* extract_info.py and line 24 of extract_research_impact.py) and the paths
\* of a category's ledger and checkpoint (lines 251-252 and 259-260).
Scripts == {"extract_info", "extract_research_impact"}
OUTPUT_DIR(s) ==
    CASE s = "extract_info" -> "data/extracted_impact"
      [] s = "extract_research_impact" -> "data/extracted_impact"
output_path(s, c) == OUTPUT_DIR(s) \o "/" \o c \o "_impact.jsonl"
progress_path(s, c) == OUTPUT_DIR(s) \o "/progress/" \o c \o "_progress.json"
OutputPaths == {output_path(s, c) : s \in Scripts, c \in Categories}
ProgressPaths == {progress_path(s, c) : s \in Scripts, c \in Categories}

\* A checkpoint file as main's processes see it.
ProgressFile(st, ids, c) == [st |-> st, processed_ids |-> ids, completed |-> c]
NoProgressFile == ProgressFile("absent", {}, FALSE)
NoLocalsOf ==
    [processed_ids |-> {}, line |-> 0, papers_processed |-> 0,
     save_kind |-> "none", interrupted |-> FALSE]

\* No process of main is running.
NoProcesses ==
    /\ script = [p \in Procs |-> "extract_research_impact"]
    /\ selected_files = [p \in Procs |-> <<>>]
    /\ readable = {}
    /\ main_pc = [p \in Procs |-> "done"]
    /\ position = [p \in Procs |-> 0]
    /\ progress_files = [f \in ProgressPaths |-> NoProgressFile]
    /\ ledgers = [f \in OutputPaths |-> 0]
    /\ summary_file = [st |-> "absent", writer |-> 0]
    /\ locals = [p \in Procs |-> NoLocalsOf]
    /\ main_exit = [p \in Procs |-> "none"]

Init ==
    /\ corpus \in Corpora
    /\ output_file = <<>>
    /\ output_exists = FALSE
    /\ progress_file = AbsentFile
    /\ pc = "idle"
    /\ idx = 0
    /\ processed_ids = {}
    /\ papers_processed = 0
    /\ papers_success = 0
    /\ papers_failed = 0
    /\ paper_id = UNBOUND
    /\ extracted = "None"
    /\ out_buf = <<>>
    /\ save_kind = "none"
    /\ attempt = 0
    /\ requests = 0
    /\ garbled = 0
    /\ last = NoReply
    /\ delays = <<>>
    /\ runs = 0
    /\ loaded_ids = {}
    /\ ledger0 = <<>>
    /\ attempted = <<>>
    /\ exit = "none"
    /\ last_saved = {}
    /\ paused = TRUE
    /\ NoTruncation
    /\ NoProcesses

\* The process ends: its files are closed (a clean close flushes out_f).
EndProcess(how) ==
    /\ pc' = "idle"
    /\ exit' = how
    /\ output_file' = IF how = "crashed" THEN output_file
                      ELSE FlushedFile(output_file, out_buf)
    /\ NoLocals
    /\ NoHistory
    /\ UNCHANGED <<corpus, output_exists, progress_file, runs, last_saved,
                   elsewhere>>

(***************************************************************************)
(* process_category_file, lines 262-289: load the checkpoint, count the    *)
(* corpus, open the ledger.                                                *)
(***************************************************************************)
StartRun ==
    /\ pc = "idle"
    /\ runs < RunsFor(corpus)
    /\ runs' = runs + 1
    /\ UNCHANGED <<corpus, progress_file, last_saved, elsewhere>>
    /\ IF progress_file.st = "partial"
       THEN \* json.load raises; nothing up to main catches it
            /\ pc' = "idle"
            /\ exit' = "JSONDecodeError"
            /\ NoLocals
            /\ NoHistory
            /\ UNCHANGED <<output_file, output_exists>>
       ELSE /\ processed_ids' = LoadProgress(progress_file)
            /\ loaded_ids' = LoadProgress(progress_file)
            /\ output_file' = OpenOutput(OutputMode(output_exists), output_file)
            /\ ledger0' = output_file'
            /\ output_exists' = TRUE
            /\ attempted' = <<>>
            /\ pc' = "loop"
            /\ exit' = "running"
            /\ idx' = 0
            /\ papers_processed' = 0
            /\ papers_success' = 0
            /\ papers_failed' = 0
            /\ paper_id' = UNBOUND
            /\ extracted' = "None"
            /\ out_buf' = <<>>
            /\ save_kind' = "none"
            /\ paused' = TRUE
            /\ NoCall

(***************************************************************************)
(* Lines 291-301: the next corpus line, up to the call of the annotator.   *)
(***************************************************************************)
NextLine ==
    /\ pc = "loop"
    /\ idx < Len(corpus)
    /\ LET line == corpus[idx + 1] IN
       CASE line.kind = "bad" ->
              \* json.JSONDecodeError: continue
              /\ idx' = idx + 1
              /\ pc' = "loop"
              /\ UNCHANGED <<disk, processed_ids, counters, paper_id, extracted,
                             out_buf, save_kind, call, runs,
                             last_saved, paused, elsewhere, loaded_ids, ledger0,
                             attempted, exit>>
         [] line.kind = "nonobj" ->
              \* paper.get raises AttributeError; the handler prints paper_id,
              \* which raises UnboundLocalError when no paper was read before
              IF paper_id = UNBOUND
              THEN EndProcess("UnboundLocalError")
              ELSE /\ idx' = idx + 1
                   /\ papers_failed' = papers_failed + 1
                   /\ pc' = "loop"
                   /\ UNCHANGED <<disk, processed_ids, papers_processed,
                                  papers_success, paper_id, extracted, out_buf,
                                  save_kind, call, runs,
                                  last_saved, paused, elsewhere, loaded_ids, ledger0,
                                  attempted, exit>>
         [] OTHER ->
              /\ idx' = idx + 1
              /\ paper_id' = line.id
              /\ IF Skip(line.id, processed_ids)
                 THEN /\ pc' = "loop"
                      /\ UNCHANGED attempted
                 ELSE /\ pc' = "request"
                      /\ attempted' = Append(attempted, line.id)
              /\ UNCHANGED <<disk, processed_ids, counters, extracted, out_buf,
                             save_kind, call, runs,
                             last_saved, paused, elsewhere, loaded_ids, ledger0, exit>>

(***************************************************************************)
(* call_ollama, lines 127-178: one iteration of the retry loop.            *)
(***************************************************************************)
Request(reply) ==
    /\ pc = "request"
    /\ requests' = requests + 1
    /\ last' = reply
    /\ paused' = FALSE
    /\ garbled' = IF ParseError(reply) THEN garbled + 1 ELSE garbled
    /\ LET r == AttemptResult(reply) IN
       IF r # "retry"
       THEN /\ extracted' = r
            /\ pc' = "returned"
            /\ UNCHANGED <<attempt, delays>>
       ELSE IF attempt < max_retries - 1
       THEN /\ delays' = Append(delays, Backoff(attempt))
            /\ attempt' = attempt + 1
            /\ UNCHANGED <<pc, extracted>>
       ELSE /\ extracted' = "None"
            /\ pc' = "returned"
            /\ UNCHANGED <<attempt, delays>>
    /\ UNCHANGED <<disk, idx, processed_ids, counters, paper_id, out_buf,
                   save_kind, runs, last_saved, elsewhere, loaded_ids, ledger0,
                   attempted, exit>>

(***************************************************************************)
(* extract_paper_info lines 239-249 and process_category_file lines        *)
(* 303-309: the result is written and flushed, or the failure counted.     *)
(***************************************************************************)
HandleResult ==
    /\ pc = "returned"
    /\ IF extracted = "list"
       THEN \* extracted['_paper_id'] = ... raises TypeError: except Exception
            /\ papers_failed' = papers_failed + 1
            /\ pc' = "loop"
            /\ extracted' = "None"
            /\ UNCHANGED <<output_file, out_buf, papers_success>>
       ELSE IF Truthy(extracted)
       THEN /\ output_file' = WriteFlush(output_file, out_buf, paper_id).disk
            /\ out_buf' = WriteFlush(output_file, out_buf, paper_id).buf
            /\ pc' = "written"
            /\ UNCHANGED <<papers_success, papers_failed, extracted>>
       ELSE /\ papers_failed' = papers_failed + 1
            /\ pc' = "mark"
            /\ UNCHANGED <<output_file, out_buf, papers_success, extracted>>
    /\ NoCall
    /\ UNCHANGED <<corpus, output_exists, progress_file, idx, processed_ids,
                   papers_processed, paper_id, save_kind, runs,
                   last_saved, paused, elsewhere, loaded_ids,
                   ledger0, attempted, exit>>

\* Line 307.
CountSuccess ==
    /\ pc = "written"
    /\ papers_success' = papers_success + 1
    /\ pc' = "mark"
    /\ UNCHANGED <<disk, idx, processed_ids, papers_processed, papers_failed,
                   paper_id, extracted, out_buf, save_kind, call, runs,
                   last_saved, paused, elsewhere,
                   loaded_ids, ledger0, attempted, exit>>

\* Lines 311-316.
MarkProcessed ==
    /\ pc = "mark"
    /\ processed_ids' = processed_ids \cup {paper_id}
    /\ papers_processed' = papers_processed + 1
    /\ IF SaveDue(papers_processed + 1)
       THEN pc' = "save_open" /\ save_kind' = "periodic"
       ELSE pc' = "sleep" /\ UNCHANGED save_kind
    /\ UNCHANGED <<disk, idx, papers_success, papers_failed, paper_id, extracted,
                   out_buf, call, runs,
                   last_saved, paused, elsewhere, loaded_ids, ledger0, attempted, exit>>

(***************************************************************************)
(* The three checkpoint writes (lines 317-324, 334-341, 348-356):          *)
(* open(progress_file, 'w') truncates, json.dump and the close write.      *)
(***************************************************************************)
SaveOpen ==
    /\ pc = "save_open"
    /\ progress_file' = PartialFile
    /\ output_file' = IF save_kind = "final"
                      THEN FlushedFile(output_file, out_buf) ELSE output_file
    /\ out_buf' = IF save_kind = "final" THEN <<>> ELSE out_buf
    /\ pc' = "save_dump"
    /\ UNCHANGED <<corpus, output_exists, idx, processed_ids, counters, paper_id,
                   extracted, save_kind, call, runs,
                   last_saved, paused, elsewhere, loaded_ids, ledger0,
                   attempted, exit>>

SaveDump ==
    /\ pc = "save_dump"
    /\ last_saved' = processed_ids
    /\ progress_file' = Dump(processed_ids, papers_processed, papers_success,
                             papers_failed, save_kind)
    /\ IF save_kind = "periodic"
       THEN /\ pc' = "sleep"
            /\ save_kind' = "none"
            /\ UNCHANGED <<corpus, output_file, output_exists, idx, processed_ids,
                           counters, paper_id, extracted, out_buf, call, runs, paused,
                           elsewhere, loaded_ids, ledger0, attempted, exit>>
       ELSE \* interrupt: raise, main ends; final: the function returns
            /\ pc' = "idle"
            /\ exit' = IF save_kind = "final" THEN "completed" ELSE "interrupted"
            /\ output_file' = FlushedFile(output_file, out_buf)
            /\ NoLocals
            /\ NoHistory
            /\ UNCHANGED <<corpus, output_exists, runs, elsewhere>>

\* open(progress_file, 'w') or json.dump raises OSError (disk full, no
\* permission): the file stays as the failed call left it.  The periodic save
\* is inside the try block, so except Exception (lines 343-345) counts a
\* failed paper and the loop goes on; the interrupt handler's save and the
\* final save are outside it, and the error ends the process.
StorageFailure ==
    /\ pc \in {"save_open", "save_dump"}
    /\ IF save_kind = "periodic"
       THEN /\ papers_failed' = papers_failed + 1
            /\ pc' = "loop"
            /\ save_kind' = "none"
            /\ extracted' = "None"
            /\ UNCHANGED <<disk, idx, processed_ids, papers_processed,
                           papers_success, paper_id, out_buf, call, runs,
                           last_saved, paused, elsewhere, loaded_ids, ledger0,
                           attempted, exit>>
       ELSE EndProcess("OSError")

\* Line 327.
Sleep ==
    /\ pc = "sleep"
    /\ pc' = "loop"
    /\ extracted' = "None"
    /\ paused' = TRUE
    /\ UNCHANGED <<disk, idx, processed_ids, counters, paper_id, out_buf,
                   save_kind, call, runs, last_saved, elsewhere, loaded_ids, ledger0,
                   attempted, exit>>

\* The for loop is exhausted: the with blocks close, the final save begins.
EndLoop ==
    /\ pc = "loop"
    /\ idx = Len(corpus)
    /\ pc' = "save_open"
    /\ save_kind' = "final"
    /\ idx' = 0
    /\ paper_id' = UNBOUND
    /\ paused' = TRUE
    /\ UNCHANGED <<disk, processed_ids, counters, extracted, out_buf, call, runs,
                   last_saved, elsewhere,
                   loaded_ids, ledger0, attempted, exit>>

(***************************************************************************)
(* KeyboardInterrupt.  Inside the try block (lines 292-327) the handler of *)
(* lines 331-342 saves the checkpoint and re-raises; anywhere else (the    *)
(* for statement reading the next line, the handler's own save, the final  *)
(* save) it propagates to main at once.                                    *)
(***************************************************************************)
InTry ==
    \/ pc \in {"request", "returned", "written", "mark", "sleep"}
    \/ pc \in {"save_open", "save_dump"} /\ save_kind = "periodic"

InterruptInTry ==
    /\ InTry
    /\ pc' = "save_open"
    /\ save_kind' = "interrupt"
    /\ extracted' = "None"
    /\ NoCall
    /\ idx' = 0
    /\ paper_id' = UNBOUND
    /\ paused' = TRUE
    /\ UNCHANGED <<disk, processed_ids, counters, out_buf, runs, last_saved, elsewhere,
                   loaded_ids, ledger0, attempted, exit>>

InterruptOutside ==
    /\ pc # "idle"
    /\ ~InTry
    /\ EndProcess("interrupted")

\* The process is killed (or the machine stops): the locals and the unflushed
\* buffer are lost, the files stay as they are.
Crash ==
    /\ pc # "idle"
    /\ EndProcess("crashed")

Next ==
    \/ StartRun
    \/ NextLine
    \/ \E reply \in RepliesFor(paper_id) : Request(reply)
    \/ HandleResult
    \/ CountSuccess
    \/ MarkProcessed
    \/ SaveOpen
    \/ SaveDump
    \/ StorageFailure
    \/ Sleep
    \/ EndLoop
    \/ InterruptInTry
    \/ InterruptOutside
    \/ Crash

Spec == Init /\ [][Next]_vars

(***************************************************************************)
(* truncate_text on its own: one call, for any text and any max_length.    *)
(***************************************************************************)
category == <<disk, pc, idx, processed_ids, counters, paper_id, extracted,
              out_buf, save_kind, call, runs, loaded_ids, ledger0, attempted,
              exit, last_saved, paused>>

\* No category is being processed and none was.
NoCategory ==
    /\ corpus = <<>>
    /\ output_file = <<>>
    /\ output_exists = FALSE
    /\ progress_file = AbsentFile
    /\ pc = "idle"
    /\ idx = 0
    /\ processed_ids = {}
    /\ papers_processed = 0
    /\ papers_success = 0
    /\ papers_failed = 0
    /\ paper_id = UNBOUND
    /\ extracted = "None"
    /\ out_buf = <<>>
    /\ save_kind = "none"
    /\ attempt = 0
    /\ requests = 0
    /\ garbled = 0
    /\ last = NoReply
    /\ delays = <<>>
    /\ runs = 0
    /\ loaded_ids = {}
    /\ ledger0 = <<>>
    /\ attempted = <<>>
    /\ exit = "none"
    /\ last_saved = {}
    /\ paused = TRUE

\* The texts: up to MaxPieces pieces, each a filler character or a word that
\* holds a section marker in some case.
Pieces == {<<"x">>, <<"M", "o", "d", "e", "l">>, <<"R", "e", "s", "u", "l", "t">>}
RECURSIVE Flatten(_)
Flatten(ps) == IF ps = <<>> THEN <<>> ELSE Head(ps) \o Flatten(Tail(ps))
PaperTexts == {Flatten(ps) : ps \in SeqsUpTo(Pieces, MaxPieces)}

TruncInit ==
    /\ NoCategory
    /\ NoProcesses
    /\ text \in PaperTexts
    /\ max_length \in 0..MaxLength
    /\ truncated_text = NotReturned

Truncate ==
    /\ ~truncated_text.returned
    /\ truncated_text' = Returned(truncate_text(text, max_length))
    /\ UNCHANGED <<text, max_length, category, processes>>

TruncNext == Truncate

TruncSpec == TruncInit /\ [][TruncNext]_vars

(***************************************************************************)
(* main, lines 450-465, and generate_extraction_summary, lines 365-392:    *)
(* up to two processes, started on disjoint selections of categories, that *)
(* share OUTPUT_DIR.  process_category_file is taken paper by paper (its   *)
(* inside is Spec's subject); the annotator succeeds or fails per paper.   *)
(***************************************************************************)
Chosen(p) == {selected_files[p][i] : i \in DOMAIN selected_files[p]}
Selections ==
    {sel \in SeqsUpTo(Categories, MaxSelected) :
        \A i, j \in DOMAIN sel : sel[i] = sel[j] => i = j}
\* The category process p is working on, and its two files.
category_of(p) == selected_files[p][position[p]]
output_file_of(p) == output_path(script[p], category_of(p))
progress_file_of(p) == progress_path(script[p], category_of(p))

MainInit ==
    /\ NoCategory
    /\ NoTruncation
    /\ script = [p \in Procs |-> "extract_research_impact"]
    /\ selected_files \in [Procs -> Selections]
    /\ selected_files[1] # <<>>
    /\ Chosen(1) \cap Chosen(2) = {}
    /\ readable \in SUBSET Categories
    /\ Categories \ (Chosen(1) \cup Chosen(2)) \subseteq readable
    \* no category file is found: main returns before the loop (lines 413-416)
    /\ main_pc = [p \in Procs |-> IF selected_files[p] = <<>> THEN "done" ELSE "for"]
    /\ main_exit = [p \in Procs |-> IF selected_files[p] = <<>> THEN "no files"
                                    ELSE "running"]
    /\ position = [p \in Procs |-> 0]
    /\ progress_files = [f \in ProgressPaths |-> NoProgressFile]
    /\ ledgers = [f \in OutputPaths |-> 0]
    /\ summary_file = [st |-> "absent", writer |-> 0]
    /\ locals = [p \in Procs |-> NoLocalsOf]

\* The exit status of the command (lines 478-479): main has no return value
\* and never calls sys.exit, so the status is 0 on every return and 1 when
\* an uncaught exception ends the process.
ExitStatus(how) ==
    IF how \in {"returned", "interrupted", "no files"} THEN 0 ELSE 1

\* An exception nothing catches ends the process.
Die(p, exception) ==
    /\ main_pc' = [main_pc EXCEPT ![p] = "done"]
    /\ main_exit' = [main_exit EXCEPT ![p] = exception]

\* Line 458: the for statement of main.
MFor(p) ==
    /\ main_pc[p] = "for"
    /\ IF position[p] < Len(selected_files[p])
       THEN /\ position' = [position EXCEPT ![p] = @ + 1]
            /\ main_pc' = [main_pc EXCEPT ![p] = "load"]
            /\ locals' = [locals EXCEPT ![p] = NoLocalsOf]
       ELSE /\ main_pc' = [main_pc EXCEPT ![p] = "summary_read"]
            /\ UNCHANGED <<position, locals>>
    /\ UNCHANGED <<script, selected_files, readable, progress_files, ledgers,
                   summary_file, main_exit, category, truncation>>

\* Lines 262-268: the checkpoint of the category is loaded.
MLoad(p) ==
    /\ main_pc[p] = "load"
    /\ LET file == progress_files[progress_file_of(p)] IN
       IF file.st = "partial"
       THEN Die(p, "JSONDecodeError") /\ UNCHANGED locals
       ELSE /\ locals' = [locals EXCEPT ![p].processed_ids = file.processed_ids]
            /\ main_pc' = [main_pc EXCEPT ![p] = "count"]
            /\ UNCHANGED main_exit
    /\ UNCHANGED <<script, selected_files, readable, position, progress_files, ledgers,
                   summary_file, category, truncation>>

\* Lines 270-289: gzip.open of the corpus (counting, then processing) and the
\* open of the ledger.  No handler up to main catches a failed open.
MCount(p) ==
    /\ main_pc[p] = "count"
    /\ IF category_of(p) \notin readable
       THEN Die(p, "OSError")
       ELSE /\ main_pc' = [main_pc EXCEPT ![p] = "loop"]
            /\ UNCHANGED main_exit
    /\ UNCHANGED <<script, selected_files, readable, position, progress_files, ledgers,
                   summary_file, locals, category, truncation>>

\* Lines 291-327 for one corpus line: the paper is skipped, or annotated
\* (ok: with a result), recorded, marked, and the checkpoint saved when due.
MPaper(p, ok) ==
    /\ main_pc[p] = "loop"
    /\ locals[p].line < MainDocs
    /\ LET paper == locals[p].line + 1
           f == output_file_of(p)
       IN IF paper \in locals[p].processed_ids
          THEN /\ locals' = [locals EXCEPT ![p].line = paper]
               /\ UNCHANGED <<ledgers, main_pc>>
          ELSE /\ ledgers' = [ledgers EXCEPT ![f] = IF ok THEN @ + 1 ELSE @]
               /\ locals' = [locals EXCEPT
                      ![p].line = paper,
                      ![p].processed_ids = @ \cup {paper},
                      ![p].papers_processed = @ + 1,
                      ![p].save_kind =
                          IF SaveDue(locals[p].papers_processed + 1)
                          THEN "periodic" ELSE "none"]
               /\ main_pc' = [main_pc EXCEPT ![p] =
                      IF SaveDue(locals[p].papers_processed + 1)
                      THEN "save_open" ELSE "loop"]
    /\ UNCHANGED <<script, selected_files, readable, position, progress_files,
                   summary_file, main_exit, category, truncation>>

\* The corpus is exhausted: the final save begins (line 348).
MEndLoop(p) ==
    /\ main_pc[p] = "loop"
    /\ locals[p].line = MainDocs
    /\ locals' = [locals EXCEPT ![p].save_kind = "final"]
    /\ main_pc' = [main_pc EXCEPT ![p] = "save_open"]
    /\ UNCHANGED <<script, selected_files, readable, position, progress_files, ledgers,
                   summary_file, main_exit, category, truncation>>

\* open(progress_file, 'w')
MSaveOpen(p) ==
    /\ main_pc[p] = "save_open"
    /\ progress_files' = [progress_files EXCEPT
           ![progress_file_of(p)] = ProgressFile("partial", {}, FALSE)]
    /\ main_pc' = [main_pc EXCEPT ![p] = "save_dump"]
    /\ UNCHANGED <<script, selected_files, readable, position, ledgers, summary_file,
                   locals, main_exit, category, truncation>>

\* json.dump and the close; then the loop goes on (periodic save), the
\* interrupt is re-raised and caught by main (line 461), or the function
\* returns to main's loop (final save).
MSaveDump(p) ==
    /\ main_pc[p] = "save_dump"
    /\ LET kind == locals[p].save_kind IN
       /\ progress_files' = [progress_files EXCEPT ![progress_file_of(p)] =
              ProgressFile("ok", locals[p].processed_ids, kind = "final")]
       /\ main_pc' = [main_pc EXCEPT ![p] =
              CASE kind = "periodic" -> "loop"
                [] kind = "interrupt" -> "summary_read"
                [] OTHER -> "for"]
       /\ locals' = [locals EXCEPT ![p].save_kind = "none",
                                   ![p].interrupted = (kind = "interrupt")]
    /\ UNCHANGED <<script, selected_files, readable, position, ledgers, summary_file,
                   main_exit, category, truncation>>

\* KeyboardInterrupt inside the try block of process_category_file.
MInterruptInTry(p) ==
    /\ \/ main_pc[p] = "loop"
       \/ main_pc[p] \in {"save_open", "save_dump"} /\ locals[p].save_kind = "periodic"
    /\ locals' = [locals EXCEPT ![p].save_kind = "interrupt"]
    /\ main_pc' = [main_pc EXCEPT ![p] = "save_open"]
    /\ UNCHANGED <<script, selected_files, readable, position, progress_files, ledgers,
                   summary_file, main_exit, category, truncation>>

\* KeyboardInterrupt anywhere else inside main's try block (lines 457-460):
\* main's handler prints and goes on to the summary.
MInterruptOutside(p) ==
    /\ \/ main_pc[p] \in {"for", "load", "count", "loop"}
       \/ main_pc[p] \in {"save_open", "save_dump"} /\ locals[p].save_kind # "periodic"
    /\ locals' = [locals EXCEPT ![p].interrupted = TRUE, ![p].save_kind = "none"]
    /\ main_pc' = [main_pc EXCEPT ![p] = "summary_read"]
    /\ UNCHANGED <<script, selected_files, readable, position, progress_files, ledgers,
                   summary_file, main_exit, category, truncation>>

\* generate_extraction_summary, lines 376-386: every *_progress.json of
\* OUTPUT_DIR/progress is loaded.
MSummaryRead(p) ==
    /\ main_pc[p] = "summary_read"
    /\ IF \E c \in Categories :
              progress_files[progress_path(script[p], c)].st = "partial"
       THEN Die(p, "JSONDecodeError")
       ELSE /\ main_pc' = [main_pc EXCEPT ![p] = "summary_open"]
            /\ UNCHANGED main_exit
    /\ UNCHANGED <<script, selected_files, readable, position, progress_files, ledgers,
                   summary_file, locals, category, truncation>>

\* Line 388: open(summary_file, 'w')
MSummaryOpen(p) ==
    /\ main_pc[p] = "summary_open"
    /\ summary_file' = [st |-> "partial", writer |-> p]
    /\ main_pc' = [main_pc EXCEPT ![p] = "summary_dump"]
    /\ UNCHANGED <<script, selected_files, readable, position, progress_files, ledgers,
                   locals, main_exit, category, truncation>>

\* Line 389 and the rest of main: json.dump, the report, the return.
MSummaryDump(p) ==
    /\ main_pc[p] = "summary_dump"
    /\ summary_file' = [st |-> "ok", writer |-> p]
    /\ main_pc' = [main_pc EXCEPT ![p] = "done"]
    /\ main_exit' = [main_exit EXCEPT ![p] =
           IF locals[p].interrupted THEN "interrupted" ELSE "returned"]
    /\ UNCHANGED <<script, selected_files, readable, position, progress_files, ledgers,
                   locals, category, truncation>>

MainNext ==
    \E p \in Procs :
        \/ MFor(p)
        \/ MLoad(p)
        \/ MCount(p)
        \/ \E ok \in BOOLEAN : MPaper(p, ok)
        \/ MEndLoop(p)
        \/ MSaveOpen(p)
        \/ MSaveDump(p)
        \/ MInterruptInTry(p)
        \/ MInterruptOutside(p)
        \/ MSummaryRead(p)
        \/ MSummaryOpen(p)
        \/ MSummaryDump(p)

MainSpec == MainInit /\ [][MainNext]_vars

(***************************************************************************)
(* The two annotation modes on the same categories: process 1 runs         *)
(* extract_info.py and process 2 runs extract_research_impact.py.  The     *)
(* code of main, process_category_file and generate_extraction_summary is  *)
(* the same in both scripts (extract_info.py lines 244-457), so the steps  *)
(* are MainNext's.                                                         *)
(***************************************************************************)
ModesInit ==
    /\ NoCategory
    /\ NoTruncation
    /\ script = [p \in Procs |-> IF p = 1 THEN "extract_info"
                                 ELSE "extract_research_impact"]
    /\ selected_files \in [Procs -> Selections]
    /\ \A p \in Procs : selected_files[p] # <<>>
    /\ readable \in SUBSET Categories
    /\ Categories \ (Chosen(1) \cup Chosen(2)) \subseteq readable
    /\ main_pc = [p \in Procs |-> "for"]
    /\ main_exit = [p \in Procs |-> "running"]
    /\ position = [p \in Procs |-> 0]
    /\ progress_files = [f \in ProgressPaths |-> NoProgressFile]
    /\ ledgers = [f \in OutputPaths |-> 0]
    /\ summary_file = [st |-> "absent", writer |-> 0]
    /\ locals = [p \in Procs |-> NoLocalsOf]

ModesSpec == ModesInit /\ [][MainNext]_vars

(***************************************************************************)
(* Properties.                                                             *)
(***************************************************************************)
Range(s) == {s[i] : i \in DOMAIN s}
NoDup(s) == \A i, j \in DOMAIN s : s[i] = s[j] => i = j
IsPrefix(s, t) == Len(s) <= Len(t) /\ \A i \in DOMAIN s : s[i] = t[i]
\* The ids a load of the checkpoint file would return.
Persisted == IF progress_file.st = "ok" THEN progress_file.processed_ids ELSE {}
\* The service's reply holds a result: the text parses, directly or after the
\* brace-span repair.
Parsed(reply) ==
    /\ reply.exc = "none" /\ reply.status = 200
    /\ reply.text \in {"object", "embedded", "emptyobject", "array"}
\* Status 200 with a text that does not parse even after the repair.
Garbage(reply) ==
    /\ reply.exc = "none" /\ reply.status = 200
    /\ reply.text \in {"garbage", "badspan"}
\* A step of call_ollama's loop.
RequestStep == pc = "request" /\ requests' = requests + 1

\* C1: in every reachable state every id with a record in the ledger on disk
\* is in processed_ids of the checkpoint on disk.
C1_LedgerWithinCheckpoint == Range(output_file) \subseteq Persisted

\* C2: a run never calls the annotator for an id that was in the processed_ids
\* it loaded, and appends no ledger record for such an id.
C2_NoReannotation ==
    /\ \A i \in DOMAIN attempted : attempted[i] \notin loaded_ids
    /\ pc # "idle" =>
         /\ IsPrefix(ledger0, output_file)
         /\ \A i \in (Len(ledger0) + 1)..Len(output_file) :
                output_file[i] \notin loaded_ids

\* A resumed run has just passed the line of a paper whose id it loaded.
C2_Witness ==
    /\ pc = "loop" /\ runs > 1 /\ idx >= 1
    /\ corpus[idx].kind = "obj"
    /\ corpus[idx].id \in loaded_ids
    /\ attempted = <<>>

\* C3: after any sequence of runs the ledger holds at most one record per id,
\* and a run keeps every record the ledger held when it began.
C3_NoDuplicateRecords ==
    /\ NoDup(output_file)
    /\ pc # "idle" => IsPrefix(ledger0, output_file)

\* C4: the record of a successfully annotated paper is on disk (written and
\* flushed) before the paper is counted as a success, before its id is added
\* to processed_ids and before the annotator is called for a later paper.
C4_AppendBeforeMark ==
    pc # "idle" =>
      /\ out_buf = <<>>
      /\ papers_success <= Len(output_file) - Len(ledger0)
      /\ (extracted = "dict" /\ pc \in {"written", "mark", "sleep", "save_open", "save_dump"}) =>
            /\ Len(output_file) > Len(ledger0)
            /\ output_file[Len(output_file)] = paper_id
      /\ pc \in {"written", "mark"} => paper_id \notin processed_ids

\* A paper was annotated successfully and is about to be marked.
C4_Witness ==
    /\ pc = "mark" /\ extracted = "dict"
    /\ papers_success = 1 /\ output_file = <<paper_id>>

\* C5: a run that starts with a ledger record whose id never reached the
\* checkpoint calls the annotator for that paper again, and when that run
\* completes every id in the ledger is in the persisted processed_ids.
Orphans == Range(ledger0) \ loaded_ids
C5_Step ==
    /\ (pc = "loop" /\ pc' = "loop" /\ idx' = idx + 1
        /\ corpus[idx'].kind = "obj" /\ corpus[idx'].id \in Orphans)
       => corpus[idx'].id \in Range(attempted)
    /\ (pc # "idle" /\ Orphans # {} /\ exit' = "completed")
       => Range(output_file') \subseteq progress_file'.processed_ids
\* C5 as a property of every step: the paper is annotated again, and the
\* completed resume leaves no ledger id outside the persisted processed_ids.
C5_ResumeAfterCrash == [][C5_Step]_vars

\* C6: a first run over N papers with distinct ids does not halt on the
\* papers that fail; at its end processed_ids holds all N ids, the ledger the
\* succeeding papers, papers_success their number and papers_failed the rest.
DistinctPapers(c) ==
    /\ \A i \in DOMAIN c : c[i].kind = "obj" /\ c[i].id # UNKNOWN
    /\ \A i, j \in DOMAIN c : c[i].id = c[j].id => i = j
C6_FailureIsolation ==
    (pc = "idle" /\ exit = "completed" /\ runs = 1 /\ DistinctPapers(corpus)) =>
      /\ progress_file.processed_ids = {corpus[i].id : i \in DOMAIN corpus}
      /\ NoDup(output_file)
      /\ progress_file.papers_success = Len(output_file)
      /\ progress_file.papers_failed = Len(corpus) - Len(output_file)

\* C7: one call_ollama call issues at most 3 requests, goes on only after a
\* reply without a result, returns at the first reply that holds one, and
\* returns None when all 3 replies held none.
C7_RetryBudget ==
    /\ requests <= max_retries
    /\ pc = "request" =>
         /\ requests = attempt
         /\ requests > 0 => ~Parsed(last)
    /\ pc = "returned" =>
         /\ requests >= 1
         /\ Parsed(last) => extracted # "None"
         /\ ~Parsed(last) => requests = max_retries /\ extracted = "None"

\* Three timeouts: the call has returned None after 3 requests.
C7_Witness ==
    /\ pc = "returned" /\ requests = max_retries
    /\ last.exc = "Timeout" /\ extracted = "None"

\* C8: a reply of status 200 whose text cannot be parsed even after the repair
\* is retried as any failed request is (next attempt after the backoff, None
\* after the last attempt); after 3 such replies 3 requests were made, the
\* paper is counted failed and marked processed, the ledger is left alone and
\* the run goes on.
C8_Step ==
    /\ (RequestStep /\ ~Parsed(last')) =>
          IF attempt < max_retries - 1
          THEN /\ pc' = "request" /\ attempt' = attempt + 1
               /\ delays' = Append(delays, 2 ^ attempt)
          ELSE pc' = "returned" /\ extracted' = "None"
    /\ (pc = "returned" /\ garbled = max_retries) =>
          requests = max_retries /\ extracted = "None"
    /\ (pc = "returned" /\ garbled = max_retries /\ pc' \in {"loop", "written", "mark"}) =>
          /\ pc' = "mark"
          /\ papers_failed' = papers_failed + 1
          /\ output_file' = output_file
    /\ (pc = "mark" /\ extracted = "None" /\ pc' \in {"sleep", "save_open"}
        /\ save_kind' # "interrupt") =>
          /\ processed_ids' = processed_ids \cup {paper_id}
          /\ output_file' = output_file
\* C8 as a property of every step: parse failures are retried like any
\* failed request, and three of them end in a failed, marked paper.
C8_ParseFailureRetried == [][C8_Step]_vars

\* Three unparsable replies: the call has returned.
C8_Witness ==
    /\ pc = "returned" /\ garbled = max_retries
    /\ Garbage(last) /\ requests = max_retries

\* C9: at every point of a run fewer than SAVE_INTERVAL papers have been
\* processed in this run without their ids being in the checkpoint on disk.
C9_BoundedRework ==
    pc # "idle" =>
      Cardinality((processed_ids \ loaded_ids) \ Persisted) <= SAVE_INTERVAL - 1

\* C10: whenever a load can happen (no process is writing), the checkpoint
\* file is absent or holds a complete record.
C10_AtomicFlush == pc = "idle" => progress_file.st # "partial"

\* C11: an interrupt that arrives during the processing loop (while the next
\* corpus line is read, in the annotator call, in the delay) leaves, before
\* the process ends, a complete checkpoint with the processed_ids and the
\* counts of that moment and without completed = true.
CurrentCheckpoint ==
    Dump(processed_ids, papers_processed, papers_success, papers_failed, "interrupt")
C11_Step ==
    /\ (InTry /\ save_kind' = "interrupt") =>
          /\ pc' = "save_open"
          /\ UNCHANGED <<processed_ids, counters>>
    /\ (pc = "save_dump" /\ save_kind = "interrupt" /\ progress_file'.st = "ok") =>
          /\ progress_file' = CurrentCheckpoint
          /\ exit' = "interrupted"
    /\ (pc = "loop" /\ exit' = "interrupted") =>
          progress_file' = CurrentCheckpoint
\* C11 as a property of every step.
C11_InterruptFlush == [][C11_Step]_vars

\* C12: once the interrupt handler runs no request is issued any more, and
\* the ledger holds no record this run wrote for the paper that was in
\* flight (handed to the annotator and not yet marked processed).
NewRecords == {output_file[i] : i \in (Len(ledger0) + 1)..Len(output_file)}
C12_NoInFlightRecord ==
    save_kind = "interrupt" =>
      /\ pc \in {"save_open", "save_dump"}
      /\ requests = 0
      /\ LET n == Len(attempted) IN
           (n > 0 /\ attempted[n] \notin processed_ids) =>
               attempted[n] \notin NewRecords

\* C13: a run that is neither interrupted nor killed and meets no storage
\* failure ends completed, whatever the corpus lines and the annotator's
\* replies are.
C13_TerminatesCompleted ==
    (pc = "idle" /\ runs >= 1
     /\ exit \notin {"interrupted", "crashed", "OSError", "JSONDecodeError"}) =>
        exit = "completed"

\* C14: every complete checkpoint a run writes (periodic, on interruption,
\* final), in a first run or after a restart, holds every id of the complete
\* checkpoint that was on disk before it.
C14_Step ==
    (progress_file'.st = "ok" /\ progress_file' # progress_file) =>
        last_saved \subseteq progress_file'.processed_ids
\* C14 as a property of every step.
C14_CheckpointGrows == [][C14_Step]_vars

\* A resumed run has completed: its checkpoint holds two ids, one of them
\* processed by this run and the other taken over from the earlier checkpoint.
C14_Witness ==
    /\ pc = "idle" /\ runs = 2 /\ exit = "completed"
    /\ Cardinality(progress_file.processed_ids) = 2
    /\ progress_file.papers_processed = 1
    /\ last_saved = progress_file.processed_ids

\* C15: a corpus line that is no document record (invalid JSON, or valid JSON
\* that is no object) is passed over: the run goes on with the next line, no
\* counter and no processed id changes, and the annotator is not called.
C15_Step ==
    (pc = "loop" /\ idx < Len(corpus) /\ corpus[idx + 1].kind # "obj"
     /\ exit' \notin {"interrupted", "crashed"}) =>
        /\ pc' = "loop"
        /\ idx' = idx + 1
        /\ UNCHANGED <<processed_ids, counters, attempted, requests>>
\* C15 as a property of every step.
C15_CorruptLineSkipped == [][C15_Step]_vars

\* C16: a process that meets a selected category whose corpus file cannot be
\* read leaves that category without checkpoint and ledger, and still
\* completes every other category it was given (unless it is interrupted).
C16_MissingCorpusIsolated ==
    \A p \in Procs :
        main_exit[p] \in {"returned", "OSError"} =>
            /\ \A c \in Chosen(p) \ readable :
                   /\ progress_files[progress_path(script[p], c)].st = "absent"
                   /\ ledgers[output_path(script[p], c)] = 0
            /\ \A c \in Chosen(p) \cap readable :
                   progress_files[progress_path(script[p], c)].completed

\* C17: a storage failure of a checkpoint write ends the category's run at
\* once, and no failed paper is counted for it.
StorageFailureStep ==
    /\ pc \in {"save_open", "save_dump"}
    /\ \/ exit' = "OSError"
       \/ save_kind = "periodic" /\ pc' = "loop"
C17_Step ==
    StorageFailureStep =>
        /\ pc' = "idle"
        /\ exit' = "OSError"
        /\ UNCHANGED progress_file
\* C17 as a property of every step.
C17_StorageFailureAborts == [][C17_Step]_vars

\* C18: a run only appends to the ledger: the ledger is the ledger the run
\* found followed by one record per paper annotated successfully in this run,
\* in the order of the corpus.
RECURSIVE InCorpusOrder(_, _)
InCorpusOrder(recs, c) ==
    IF recs = <<>> THEN TRUE
    ELSE IF c = <<>> THEN FALSE
    ELSE IF Head(c).kind = "obj" /\ Head(c).id = Head(recs)
         THEN InCorpusOrder(Tail(recs), Tail(c))
         ELSE InCorpusOrder(recs, Tail(c))
C18_Step ==
    /\ IF pc = "returned" /\ extracted = "dict" /\ pc' = "written"
       THEN output_file' = Append(output_file, paper_id)
       ELSE output_file' = output_file
    /\ pc' # "idle" =>
          /\ IsPrefix(ledger0', output_file')
          /\ InCorpusOrder(SubSeq(output_file', Len(ledger0') + 1, Len(output_file')),
                           corpus)
\* C18 as a property of every step.
C18_LedgerAppendOnly == [][C18_Step]_vars

\* A resumed run found a record in the ledger and has appended another.
C18_Witness ==
    /\ runs = 2 /\ pc = "mark"
    /\ Len(ledger0) = 1
    /\ output_file = Append(ledger0, paper_id)

\* C19: of two processes working on different categories neither reads or
\* writes a file the other writes: the summary step loads only checkpoints
\* of the process's own categories, the summary file has one writer, and no
\* process fails on a checkpoint that is not its own.
C19_Step ==
    \A p \in Procs :
        /\ (main_pc[p] = "summary_read" /\ main_pc'[p] # "summary_read") =>
              \A c \in Categories :
                  progress_files[progress_path(script[p], c)].st # "absent"
                      => c \in Chosen(p)
        /\ (main_pc[p] = "summary_open" /\ main_pc'[p] = "summary_dump") =>
              summary_file.writer \in {0, p}
        /\ (main_exit[p] = "running" /\ main_exit'[p] = "JSONDecodeError") =>
              \E c \in Chosen(p) :
                  progress_files[progress_path(script[p], c)].st = "partial"
\* C19 as a property of every step.
C19_NoSharedState == [][C19_Step]_vars

\* C20: for every text and every max_length >= 0, truncate_text returns a
\* string of at most max_length characters plus the ellipsis marker.
C20_BoundedPreparation ==
    truncated_text.returned =>
        Len(truncated_text.value) <= max_length + Len(Separator)

\* C21: every annotator call ends with one JSON object or with nothing
\* (None); it never hands another kind of value to its caller.
C21_ObjectOrNothing ==
    pc = "returned" => extracted \in {"dict", "emptydict", "None"}

\* C22: the command ends with a different outcome (return value, exit
\* status) in each of the three cases: every selected category completed,
\* the user interrupted the run, no category file was found.
C22_ExitDistinguishes ==
    \A p, q \in Procs :
        (/\ main_exit[p] \in {"returned", "interrupted", "no files"}
         /\ main_exit[q] \in {"returned", "interrupted", "no files"}
         /\ main_exit[p] # main_exit[q]) =>
            ExitStatus(main_exit[p]) # ExitStatus(main_exit[q])

\* C23: within one call_ollama call there is one backoff delay after every
\* attempt that is followed by another attempt and none elsewhere (none
\* before the first attempt, none after the last), and the delays are
\* 1 s, 2 s: each twice the one before, whatever made the attempts fail.
C23_BackoffBetweenAttempts ==
    /\ \A i \in DOMAIN delays : delays[i] = 2 ^ (i - 1)
    /\ pc = "request" => Len(delays) = requests
    /\ pc = "returned" => Len(delays) = requests - 1
    /\ pc \notin {"request", "returned"} => delays = <<>>

\* A call has made its three attempts, the retries caused by a parse failure
\* and by another failure, the last attempt ended by a timeout: two delays.
C23_Witness ==
    /\ pc = "returned" /\ requests = max_retries
    /\ garbled = 1 /\ last.exc = "Timeout"
    /\ delays = <<1, 2>>

\* C24: in a run, the annotator call for a paper starts only after the
\* rate-limiting pause has followed the annotator call for the paper before
\* it, whatever that paper's outcome was.
C24_Step == (pc = "loop" /\ pc' = "request") => paused
\* C24 as a property of every step.
C24_PauseBetweenPapers == [][C24_Step]_vars

\* C25: in every checkpoint a run writes, papers_processed is the sum of
\* papers_success and papers_failed.  Stated for the final checkpoints, which
\* no interrupt has cut short.
C25_CountsAddUp ==
    (progress_file.st = "ok" /\ progress_file.completed) =>
        progress_file.papers_processed =
            progress_file.papers_success + progress_file.papers_failed

\* C26: in every checkpoint written, also by a resumed run and by a re-run of
\* a completed category, papers_processed is the number of processed_ids and
\* papers_success the number of ledger records.  Stated for the final
\* checkpoint of a run that found every ledger id in the checkpoint it loaded.
C26_Step ==
    (/\ pc = "save_dump" /\ save_kind = "final"
     /\ progress_file'.st = "ok"
     /\ Orphans = {}) =>
        /\ progress_file'.papers_processed =
              Cardinality(progress_file'.processed_ids)
        /\ progress_file'.papers_success = Len(output_file')
\* C26 as a property of every step.
C26_CountsMatchState == [][C26_Step]_vars

\* C27: a checkpoint with completed = true holds the id of every corpus line
\* that parses as a document.
C27_CompletedCoversCorpus ==
    (progress_file.st = "ok" /\ progress_file.completed) =>
        \A i \in DOMAIN corpus :
            corpus[i].kind = "obj" => corpus[i].id \in progress_file.processed_ids

\* C29: a run that starts from an empty checkpoint calls the annotator for
\* every corpus line that parses as a document, also for a document without
\* an id and for one whose id an earlier line had.
C29_Step ==
    (/\ pc = "loop" /\ loaded_ids = {} /\ idx < Len(corpus)
     /\ corpus[idx + 1].kind = "obj"
     /\ idx' = idx + 1) =>
        pc' = "request"
\* C29 as a property of every step.
C29_EveryDocumentAnnotated == [][C29_Step]_vars

\* C30: a paper is counted failed only when its annotator call used all 3
\* attempts without obtaining a JSON object; a call that obtained one (the
\* empty object included) gives the paper a ledger record and a success.
C30_Step ==
    /\ (pc = "returned" /\ extracted \in {"dict", "emptydict"}
        /\ pc' \in {"written", "mark", "loop"}) =>
          /\ pc' = "written"
          /\ output_file' = Append(output_file, paper_id)
    /\ (pc = "returned" /\ papers_failed' = papers_failed + 1) =>
          requests = max_retries /\ ~Parsed(last)
\* C30 as a property of every step.
C30_FailedOnlyAfterRetries == [][C30_Step]_vars

\* The persisted state of a mode: per category, its checkpoint and the
\* number of records of its ledger.
ModeFiles(s) ==
    [c \in Categories |-> <<progress_files[progress_path(s, c)],
                            ledgers[output_path(s, c)]>>]
\* Process p takes the step.
StepOf(p) ==
    \/ main_pc'[p] # main_pc[p]
    \/ locals'[p] # locals[p]
    \/ position'[p] # position[p]

\* C28: the two annotation modes keep separate persisted state for the same
\* category: a step of a process running one mode leaves the checkpoints
\* (which documents are skipped) and the ledgers of the other mode as they
\* were.
C28_Step ==
    \A s \in Scripts :
        (\A p \in Procs : script[p] = s => ~StepOf(p)) =>
            ModeFiles(s)' = ModeFiles(s)
\* C28 as a property of every step.
C28_ModesKeepSeparateState == [][C28_Step]_vars

====
